---- MODULE Spec2Model ----
(***************************************************************************)
(* A model of contracts/RockPaperScissorsGame.sol: the commit-reveal       *)
(* wagering contract.  Every external function is one action and one EVM   *)
(* transaction: its require statements are evaluated in source order, a    *)
(* failed require reverts the whole transaction (no storage change), and   *)
(* the internal calls it makes (_generateRandomSeed, _determineWinner,     *)
(* _distributeFunds) are part of the same step.                            *)
(*                                                                         *)
(* Units: amounts are counted in units of 0.001 ether (so MIN_BET_AMOUNT   *)
(* is 1 and MAX_BET_AMOUNT is 10000); time is block.timestamp in seconds.  *)
(* keccak256(abi.encodePacked(choice, nonce, player)) is modelled as the   *)
(* injective tuple <<choice, nonce, player>>, bytes32(0) as the empty      *)
(* tuple, which no hash equals.                                            *)
(***************************************************************************)
EXTENDS Integers, Sequences, FiniteSets, TLC

VARIABLES
    games,            \* mapping(uint256 => Game) games
    nextGameId,       \* uint256 nextGameId
    playerBalances,   \* mapping(address => uint256) playerBalances
    contractBalance,  \* address(this).balance
    now,              \* block.timestamp
    credited,         \* history: per account, the sum of every playerBalances[..] += ..
    withdrawn         \* history: per account, the sum of its FundsWithdrawn amounts

vars == <<games, nextGameId, playerBalances, contractBalance, now, credited, withdrawn>>

----------------------------------------------------------------------------
\* Bounds of the model

MaxGames == 1          \* games that are played: CreateGame is enabled while nextGameId <= MaxGames
MaxPair == 2           \* games played side by side: CreatePair is enabled while nextGameId <= MaxPair
MaxIds == 3            \* ids that can be assigned: CreateAny is enabled while nextGameId <= MaxIds
TickStep == 300        \* seconds added to block.timestamp by one Tick
MaxElapsed == 900      \* Tick is enabled while now + TickStep <= StartTime + MaxElapsed
MaxRefund == 200       \* cancelGame is enabled while the creator's balance + bet <= MaxRefund

----------------------------------------------------------------------------
\* Program constants and types

COMMIT_DURATION == 300
REVEAL_DURATION == 300
CANCEL_DELAY == 3600
MIN_BET_AMOUNT == 1
MAX_BET_AMOUNT == 10000

ChoiceNone == 0
Rock == 1
Paper == 2
Scissors == 3
Choice == {ChoiceNone, Rock, Paper, Scissors}

GameResult == {"Pending", "Player1Wins", "Player2Wins", "Draw", "Expired"}

ZeroAddr == "0x0"
Accounts == {"A", "B", "K"}
owner == "K"

ZeroHash == <<>>

Hash(choice, nonce, player) == <<choice, nonce, player>>

\* block.timestamp of the first transaction: a Unix time, far more than one
\* hour after the epoch
StartTime == CANCEL_DELAY + TickStep

GameIds == 1..MaxGames

\* the part of the games mapping the model holds
AllIds == 1..(IF MaxIds > MaxGames THEN MaxIds ELSE MaxGames)

OK == "ok"

ZeroGame ==
    [ player1 |-> ZeroAddr, player2 |-> ZeroAddr,
      player1CommitHash |-> ZeroHash, player2CommitHash |-> ZeroHash,
      player1Choice |-> ChoiceNone, player2Choice |-> ChoiceNone,
      betAmount |-> 0, commitDeadline |-> 0, revealDeadline |-> 0,
      result |-> "Pending",
      player1Revealed |-> FALSE, player2Revealed |-> FALSE,
      isCompleted |-> FALSE, fundsDistributed |-> FALSE,
      randomSeed |-> 0 ]

----------------------------------------------------------------------------
\* Inputs of the transactions

Nonces == {7, 9}
Seeds == {11, 12}
Creators == {"A"}
Joiners == {"A", "B"}
CreateValues == {0, 1, 100, 10000, 10001}
JoinValues == {50, 100}

\* the nonce a player uses when computing the commitment it submits
CommitNonce(a) == IF a = "B" THEN 9 ELSE 7

\* the nonces a player may commit with: A uses either, the others their own
CommitNonces(a) == IF a = "A" THEN Nonces ELSE {CommitNonce(a)}

\* hashes a caller submits: the zero hash, its own commitments to every enum
\* value and nonce, and a copy of any hash already stored in the game
CommitInputs(a, g) ==
    {ZeroHash}
    \cup {Hash(c, n, a) : c \in Choice, n \in CommitNonces(a)}
    \cup {games[g].player1CommitHash, games[g].player2CommitHash}

----------------------------------------------------------------------------
\* a failed require: the transaction reverts, storage and balances are unchanged
Revert == UNCHANGED vars

\* the credits a step adds to playerBalances, added to the running totals
creditedAfter(balances) ==
    [a \in Accounts |-> credited[a] + (balances[a] - playerBalances[a])]

Init ==
    /\ games = [g \in AllIds |-> ZeroGame]
    /\ nextGameId = 1
    /\ playerBalances = [a \in Accounts |-> 0]
    /\ contractBalance = 0
    /\ now = StartTime
    /\ credited = [a \in Accounts |-> 0]
    /\ withdrawn = [a \in Accounts |-> 0]

----------------------------------------------------------------------------
\* createGame

\* variant: the upper bound is exclusive
createGameErr_BelowMax(value) ==
    IF value < MIN_BET_AMOUNT THEN "Bet amount too low"
    ELSE IF value >= MAX_BET_AMOUNT THEN "Bet amount too high"
    ELSE OK

createGameErr(value) ==
    IF value < MIN_BET_AMOUNT THEN "Bet amount too low"
    ELSE IF value > MAX_BET_AMOUNT THEN "Bet amount too high"
    ELSE OK

\* variant: the counter is not advanced after the first game, whose id is reused
createGame_SameId(sender, value) ==
    LET err == createGameErr(value)
        id == IF nextGameId > 1 THEN nextGameId - 1 ELSE 1
    IN
    IF err # OK THEN Revert
    ELSE
      /\ games' = [games EXCEPT ![id] =
                     [ZeroGame EXCEPT !.player1 = sender, !.betAmount = value]]
      /\ nextGameId' = id + 1
      /\ contractBalance' = contractBalance + value
      /\ UNCHANGED <<playerBalances, now, credited, withdrawn>>

createGame(sender, value) ==
    LET err == createGameErr(value) IN
    IF err # OK THEN Revert
    ELSE
      /\ games' = [games EXCEPT ![nextGameId] =
                     [ZeroGame EXCEPT !.player1 = sender, !.betAmount = value]]
      /\ nextGameId' = nextGameId + 1
      /\ contractBalance' = contractBalance + value
      /\ UNCHANGED <<playerBalances, now, credited, withdrawn>>

----------------------------------------------------------------------------
\* joinGame

\* variant: the "Cannot play against yourself" require is missing
joinGameErr_SelfJoin(sender, gameId, value) ==
    LET game == games[gameId] IN
    IF game.player1 = ZeroAddr THEN "Game does not exist"
    ELSE IF game.player2 # ZeroAddr THEN "Game already has two players"
    ELSE IF value # game.betAmount THEN "Must match the bet amount"
    ELSE OK

\* variant: an account that is in an unfinished game may not join another
joinGameErr_OneAtATime(sender, gameId, value) ==
    LET game == games[gameId] IN
    IF game.player1 = ZeroAddr THEN "Game does not exist"
    ELSE IF game.player2 # ZeroAddr THEN "Game already has two players"
    ELSE IF sender = game.player1 THEN "Cannot play against yourself"
    ELSE IF value # game.betAmount THEN "Must match the bet amount"
    ELSE IF \E h \in DOMAIN games :
                h # gameId /\ games[h].player2 = sender /\ ~games[h].isCompleted
         THEN "Already playing"
    ELSE OK

joinGameErr(sender, gameId, value) ==
    LET game == games[gameId] IN
    IF game.player1 = ZeroAddr THEN "Game does not exist"
    ELSE IF game.player2 # ZeroAddr THEN "Game already has two players"
    ELSE IF sender = game.player1 THEN "Cannot play against yourself"
    ELSE IF value # game.betAmount THEN "Must match the bet amount"
    ELSE OK

\* variant: the joiner's deposit is also booked on its withdrawable balance
joinGame_BooksDeposit(sender, gameId, value) ==
    LET err == joinGameErr(sender, gameId, value) IN
    IF err # OK THEN Revert
    ELSE
      /\ games' = [games EXCEPT ![gameId] =
                     [@ EXCEPT !.player2 = sender,
                               !.commitDeadline = now + COMMIT_DURATION]]
      /\ contractBalance' = contractBalance + value
      /\ playerBalances' = [playerBalances EXCEPT ![sender] = @ + value]
      /\ credited' = creditedAfter(playerBalances')
      /\ UNCHANGED <<nextGameId, now, withdrawn>>

joinGame(sender, gameId, value) ==
    LET err == joinGameErr(sender, gameId, value) IN
    IF err # OK THEN Revert
    ELSE
      /\ games' = [games EXCEPT ![gameId] =
                     [@ EXCEPT !.player2 = sender,
                               !.commitDeadline = now + COMMIT_DURATION]]
      /\ contractBalance' = contractBalance + value
      /\ UNCHANGED <<nextGameId, playerBalances, now, credited, withdrawn>>

----------------------------------------------------------------------------
\* commitChoice (with _generateRandomSeed)

\* variant: the "Already committed" requires are missing
commitChoiceErr_Overwrite(sender, gameId, commitHash) ==
    LET game == games[gameId] IN
    IF ~(game.player1 # ZeroAddr /\ game.player2 # ZeroAddr) THEN "Game not ready"
    ELSE IF ~(now <= game.commitDeadline) THEN "Commit phase expired"
    ELSE IF commitHash = ZeroHash THEN "Invalid commit hash"
    ELSE IF sender = game.player1 \/ sender = game.player2 THEN OK
    ELSE "Not a player in this game"

\* variant: the "Commit phase expired" require is missing
commitChoiceErr_NoDeadline(sender, gameId, commitHash) ==
    LET game == games[gameId] IN
    IF ~(game.player1 # ZeroAddr /\ game.player2 # ZeroAddr) THEN "Game not ready"
    ELSE IF commitHash = ZeroHash THEN "Invalid commit hash"
    ELSE IF sender = game.player1 THEN
        (IF game.player1CommitHash # ZeroHash THEN "Already committed" ELSE OK)
    ELSE IF sender = game.player2 THEN
        (IF game.player2CommitHash # ZeroHash THEN "Already committed" ELSE OK)
    ELSE "Not a player in this game"

commitChoiceErr(sender, gameId, commitHash) ==
    LET game == games[gameId] IN
    IF ~(game.player1 # ZeroAddr /\ game.player2 # ZeroAddr) THEN "Game not ready"
    ELSE IF ~(now <= game.commitDeadline) THEN "Commit phase expired"
    ELSE IF commitHash = ZeroHash THEN "Invalid commit hash"
    ELSE IF sender = game.player1 THEN
        (IF game.player1CommitHash # ZeroHash THEN "Already committed" ELSE OK)
    ELSE IF sender = game.player2 THEN
        (IF game.player2CommitHash # ZeroHash THEN "Already committed" ELSE OK)
    ELSE "Not a player in this game"

\* the storage write of the branch taken for msg.sender
storeCommit(game, sender, commitHash) ==
    IF sender = game.player1
    THEN [game EXCEPT !.player1CommitHash = commitHash]
    ELSE [game EXCEPT !.player2CommitHash = commitHash]

\* variant: the reveal phase starts as soon as either player has committed
startRevealPhase_Either(game, seed) ==
    IF game.player1CommitHash # ZeroHash \/ game.player2CommitHash # ZeroHash
    THEN [game EXCEPT !.revealDeadline = now + REVEAL_DURATION,
                      !.randomSeed = seed]
    ELSE game

\* variant: the reveal window is counted from the commit deadline
startRevealPhase_FromCommitDeadline(game, seed) ==
    IF game.player1CommitHash # ZeroHash /\ game.player2CommitHash # ZeroHash
    THEN [game EXCEPT !.revealDeadline = game.commitDeadline + REVEAL_DURATION,
                      !.randomSeed = seed]
    ELSE game

\* "If both players have committed, start reveal phase and generate random seed"
startRevealPhase(game, seed) ==
    IF game.player1CommitHash # ZeroHash /\ game.player2CommitHash # ZeroHash
    THEN [game EXCEPT !.revealDeadline = now + REVEAL_DURATION,
                      !.randomSeed = seed]
    ELSE game

commitChoice(sender, gameId, commitHash, seed) ==
    LET err == commitChoiceErr(sender, gameId, commitHash) IN
    IF err # OK THEN Revert
    ELSE
      /\ games' = [games EXCEPT ![gameId] =
                     startRevealPhase(storeCommit(@, sender, commitHash), seed)]
      /\ UNCHANGED <<nextGameId, playerBalances, contractBalance, now, credited, withdrawn>>

----------------------------------------------------------------------------
\* revealChoice (with _determineWinner and _distributeFunds)

\* variant: the Paper/Rock pair is listed the wrong way round
determineWinner_PaperRock(choice1, choice2) ==
    IF choice1 = choice2 THEN "Draw"
    ELSE IF \/ (choice1 = Rock /\ choice2 = Scissors)
            \/ (choice1 = Rock /\ choice2 = Paper)
            \/ (choice1 = Scissors /\ choice2 = Paper)
         THEN "Player1Wins"
    ELSE "Player2Wins"

\* the result _determineWinner computes from the two stored choices
\* variant: the Rock/Scissors pair is listed the wrong way round
determineWinner_ScissorsRock(choice1, choice2) ==
    IF choice1 = choice2 THEN "Draw"
    ELSE IF \/ (choice1 = Scissors /\ choice2 = Rock)
            \/ (choice1 = Paper /\ choice2 = Rock)
            \/ (choice1 = Scissors /\ choice2 = Paper)
         THEN "Player1Wins"
    ELSE "Player2Wins"

determineWinner(choice1, choice2) ==
    IF choice1 = choice2 THEN "Draw"
    ELSE IF \/ (choice1 = Rock /\ choice2 = Scissors)
            \/ (choice1 = Paper /\ choice2 = Rock)
            \/ (choice1 = Scissors /\ choice2 = Paper)
         THEN "Player1Wins"
    ELSE "Player2Wins"

\* variant: on a Draw each player is credited the whole pot
distributeFunds_DrawPaysPot(game, balances) ==
    LET totalPot == game.betAmount * 2 IN
    IF game.result = "Draw" THEN
        [a \in Accounts |->
            balances[a] + (IF a = game.player1 THEN totalPot ELSE 0)
                        + (IF a = game.player2 THEN totalPot ELSE 0)]
    ELSE IF game.result = "Player1Wins" THEN
        [a \in Accounts |-> balances[a] + (IF a = game.player1 THEN totalPot ELSE 0)]
    ELSE IF game.result = "Player2Wins" THEN
        [a \in Accounts |-> balances[a] + (IF a = game.player2 THEN totalPot ELSE 0)]
    ELSE balances

\* variant: the winner is credited one stake and the loser the other
distributeFunds_SplitOnWin(game, balances) ==
    [a \in Accounts |->
        balances[a] + (IF a = game.player1 THEN game.betAmount ELSE 0)
                    + (IF a = game.player2 THEN game.betAmount ELSE 0)]

\* the balances _distributeFunds writes for a game whose result is set
distributeFunds(game, balances) ==
    LET totalPot == game.betAmount * 2 IN
    IF game.result = "Draw" THEN
        [a \in Accounts |->
            balances[a] + (IF a = game.player1 THEN game.betAmount ELSE 0)
                        + (IF a = game.player2 THEN game.betAmount ELSE 0)]
    ELSE IF game.result = "Player1Wins" THEN
        [a \in Accounts |-> balances[a] + (IF a = game.player1 THEN totalPot ELSE 0)]
    ELSE IF game.result = "Player2Wins" THEN
        [a \in Accounts |-> balances[a] + (IF a = game.player2 THEN totalPot ELSE 0)]
    ELSE balances

\* "require(game.revealDeadline > 0, ...)"
revealPhaseStarted(game) == game.revealDeadline > 0

\* the storage write of the branch taken for msg.sender
storeReveal(game, sender, choice) ==
    IF sender = game.player1
    THEN [game EXCEPT !.player1Choice = choice, !.player1Revealed = TRUE]
    ELSE [game EXCEPT !.player2Choice = choice, !.player2Revealed = TRUE]

\* variant: the hash is recomputed without msg.sender
expectedHashOf_NoSender(sender, choice, nonce) == Hash(choice, nonce, ZeroAddr)

\* "bytes32 expectedHash = keccak256(abi.encodePacked(choice, nonce, msg.sender))"
expectedHashOf(sender, choice, nonce) == Hash(choice, nonce, sender)

\* variant: the "Invalid choice" require is missing
revealChoiceErr_AnyChoice(sender, gameId, choice, nonce) ==
    LET game == games[gameId]
        expectedHash == expectedHashOf(sender, choice, nonce)
    IN
    IF ~revealPhaseStarted(game) THEN "Reveal phase not started"
    ELSE IF ~(now <= game.revealDeadline) THEN "Reveal phase expired"
    ELSE IF sender = game.player1 THEN
        (IF game.player1CommitHash # expectedHash THEN "Invalid reveal"
         ELSE IF game.player1Revealed THEN "Already revealed"
         ELSE IF game.player2Revealed /\ game.fundsDistributed
              THEN "Funds already distributed"
         ELSE OK)
    ELSE IF sender = game.player2 THEN
        (IF game.player2CommitHash # expectedHash THEN "Invalid reveal"
         ELSE IF game.player2Revealed THEN "Already revealed"
         ELSE IF game.player1Revealed /\ game.fundsDistributed
              THEN "Funds already distributed"
         ELSE OK)
    ELSE "Not a player in this game"

\* variant: the "Invalid reveal" requires are missing
revealChoiceErr_NoHashCheck(sender, gameId, choice, nonce) ==
    LET game == games[gameId] IN
    IF ~revealPhaseStarted(game) THEN "Reveal phase not started"
    ELSE IF ~(now <= game.revealDeadline) THEN "Reveal phase expired"
    ELSE IF choice = ChoiceNone THEN "Invalid choice"
    ELSE IF sender = game.player1 THEN
        (IF game.player1Revealed THEN "Already revealed"
         ELSE IF game.player2Revealed /\ game.fundsDistributed
              THEN "Funds already distributed"
         ELSE OK)
    ELSE IF sender = game.player2 THEN
        (IF game.player2Revealed THEN "Already revealed"
         ELSE IF game.player1Revealed /\ game.fundsDistributed
              THEN "Funds already distributed"
         ELSE OK)
    ELSE "Not a player in this game"

\* variant: the "Reveal phase expired" require is missing
revealChoiceErr_NoExpiry(sender, gameId, choice, nonce) ==
    LET game == games[gameId]
        expectedHash == expectedHashOf(sender, choice, nonce)
    IN
    IF ~revealPhaseStarted(game) THEN "Reveal phase not started"
    ELSE IF choice = ChoiceNone THEN "Invalid choice"
    ELSE IF sender = game.player1 THEN
        (IF game.player1CommitHash # expectedHash THEN "Invalid reveal"
         ELSE IF game.player1Revealed THEN "Already revealed"
         ELSE IF game.player2Revealed /\ game.fundsDistributed
              THEN "Funds already distributed"
         ELSE OK)
    ELSE IF sender = game.player2 THEN
        (IF game.player2CommitHash # expectedHash THEN "Invalid reveal"
         ELSE IF game.player2Revealed THEN "Already revealed"
         ELSE IF game.player1Revealed /\ game.fundsDistributed
              THEN "Funds already distributed"
         ELSE OK)
    ELSE "Not a player in this game"

revealChoiceErr(sender, gameId, choice, nonce) ==
    LET game == games[gameId]
        expectedHash == expectedHashOf(sender, choice, nonce)
    IN
    IF ~revealPhaseStarted(game) THEN "Reveal phase not started"
    ELSE IF ~(now <= game.revealDeadline) THEN "Reveal phase expired"
    ELSE IF choice = ChoiceNone THEN "Invalid choice"
    ELSE IF sender = game.player1 THEN
        (IF game.player1CommitHash # expectedHash THEN "Invalid reveal"
         ELSE IF game.player1Revealed THEN "Already revealed"
         ELSE IF game.player2Revealed /\ game.fundsDistributed
              THEN "Funds already distributed"
         ELSE OK)
    ELSE IF sender = game.player2 THEN
        (IF game.player2CommitHash # expectedHash THEN "Invalid reveal"
         ELSE IF game.player2Revealed THEN "Already revealed"
         ELSE IF game.player1Revealed /\ game.fundsDistributed
              THEN "Funds already distributed"
         ELSE OK)
    ELSE "Not a player in this game"

\* _determineWinner's storage writes, up to the call of _distributeFunds
\* variant: the result is stored but the game is not marked completed
setResult_NotCompleted(game) ==
    [game EXCEPT !.result = determineWinner(game.player1Choice, game.player2Choice)]

\* variant: a draw is broken by the parity of the game's seed
setResult_SeedTieBreak(game) ==
    LET drawn == determineWinner(game.player1Choice, game.player2Choice) IN
    [game EXCEPT !.result = IF drawn # "Draw" THEN drawn
                            ELSE IF game.randomSeed % 2 = 0 THEN "Player1Wins"
                            ELSE "Player2Wins",
                 !.isCompleted = TRUE]

setResult(game) ==
    [game EXCEPT !.result = determineWinner(game.player1Choice, game.player2Choice),
                 !.isCompleted = TRUE]

revealChoice(sender, gameId, choice, nonce) ==
    LET err == revealChoiceErr(sender, gameId, choice, nonce) IN
    IF err # OK THEN Revert
    ELSE
      LET revealed == storeReveal(games[gameId], sender, choice) IN
      /\ IF revealed.player1Revealed /\ revealed.player2Revealed
         THEN LET decided == setResult(revealed) IN
              /\ games' = [games EXCEPT ![gameId] =
                             [decided EXCEPT !.fundsDistributed = TRUE]]
              /\ playerBalances' = distributeFunds(decided, playerBalances)
         ELSE /\ games' = [games EXCEPT ![gameId] = revealed]
              /\ UNCHANGED playerBalances
      /\ credited' = creditedAfter(playerBalances')
      /\ UNCHANGED <<nextGameId, contractBalance, now, withdrawn>>

----------------------------------------------------------------------------
\* handleExpiredGame

\* variant: the isCompleted check is missing
handleExpiredGameErr_NoCompletedCheck(gameId) ==
    LET game == games[gameId] IN
    IF ~(game.revealDeadline > 0 /\ now > game.revealDeadline) THEN "Game not expired"
    ELSE OK

\* variant: the sweep is refused unless one of the players has revealed
handleExpiredGameErr_NeedsReveal(gameId) ==
    LET game == games[gameId] IN
    IF ~(game.revealDeadline > 0 /\ now > game.revealDeadline) THEN "Game not expired"
    ELSE IF game.isCompleted THEN "Game already completed"
    ELSE IF ~game.player1Revealed /\ ~game.player2Revealed THEN "Game not expired"
    ELSE OK

\* variant: the deadline comparison is >= instead of >
handleExpiredGameErr_AtDeadline(gameId) ==
    LET game == games[gameId] IN
    IF ~(game.revealDeadline > 0 /\ now >= game.revealDeadline) THEN "Game not expired"
    ELSE IF game.isCompleted THEN "Game already completed"
    ELSE OK

handleExpiredGameErr(gameId) ==
    LET game == games[gameId] IN
    IF ~(game.revealDeadline > 0 /\ now > game.revealDeadline) THEN "Game not expired"
    ELSE IF game.isCompleted THEN "Game already completed"
    ELSE OK

\* variant: the two forfeiture branches name the wrong winner
expiredResult_Swapped(game) ==
    IF game.player1Revealed /\ ~game.player2Revealed THEN "Player2Wins"
    ELSE IF ~game.player1Revealed /\ game.player2Revealed THEN "Player1Wins"
    ELSE "Expired"

\* variant: with no reveal only the creator is refunded
expiredCredits_CreatorOnly(game, balances) ==
    IF game.player1Revealed /\ ~game.player2Revealed THEN
        [a \in Accounts |->
            balances[a] + (IF a = game.player1 THEN game.betAmount * 2 ELSE 0)]
    ELSE IF ~game.player1Revealed /\ game.player2Revealed THEN
        [a \in Accounts |->
            balances[a] + (IF a = game.player2 THEN game.betAmount * 2 ELSE 0)]
    ELSE
        [a \in Accounts |->
            balances[a] + (IF a = game.player1 THEN game.betAmount ELSE 0)]

\* the result and the credits of the three branches
expiredResult(game) ==
    IF game.player1Revealed /\ ~game.player2Revealed THEN "Player1Wins"
    ELSE IF ~game.player1Revealed /\ game.player2Revealed THEN "Player2Wins"
    ELSE "Expired"

expiredCredits(game, balances) ==
    IF game.player1Revealed /\ ~game.player2Revealed THEN
        [a \in Accounts |->
            balances[a] + (IF a = game.player1 THEN game.betAmount * 2 ELSE 0)]
    ELSE IF ~game.player1Revealed /\ game.player2Revealed THEN
        [a \in Accounts |->
            balances[a] + (IF a = game.player2 THEN game.betAmount * 2 ELSE 0)]
    ELSE
        [a \in Accounts |->
            balances[a] + (IF a = game.player1 THEN game.betAmount ELSE 0)
                        + (IF a = game.player2 THEN game.betAmount ELSE 0)]

\* variant: only the two players may sweep
handleExpiredGame_PlayersOnly(sender, gameId) ==
    LET err == handleExpiredGameErr(gameId) IN
    IF err # OK \/ (sender # games[gameId].player1 /\ sender # games[gameId].player2)
    THEN Revert
    ELSE
      /\ games' = [games EXCEPT ![gameId] =
                     [@ EXCEPT !.result = expiredResult(games[gameId]),
                               !.isCompleted = TRUE,
                               !.fundsDistributed = TRUE]]
      /\ playerBalances' = expiredCredits(games[gameId], playerBalances)
      /\ credited' = creditedAfter(playerBalances')
      /\ UNCHANGED <<nextGameId, contractBalance, now, withdrawn>>

handleExpiredGame(sender, gameId) ==
    LET err == handleExpiredGameErr(gameId) IN
    IF err # OK THEN Revert
    ELSE
      /\ games' = [games EXCEPT ![gameId] =
                     [@ EXCEPT !.result = expiredResult(games[gameId]),
                               !.isCompleted = TRUE,
                               !.fundsDistributed = TRUE]]
      /\ playerBalances' = expiredCredits(games[gameId], playerBalances)
      /\ credited' = creditedAfter(playerBalances')
      /\ UNCHANGED <<nextGameId, contractBalance, now, withdrawn>>

----------------------------------------------------------------------------
\* cancelGame

\* variant: the "Only game creator can cancel" require is missing
cancelGameErr_AnyCaller(sender, gameId) ==
    LET game == games[gameId] IN
    IF game.player2 # ZeroAddr THEN "Cannot cancel game with two players"
    ELSE IF ~(now > game.commitDeadline + CANCEL_DELAY) THEN "Must wait before canceling"
    ELSE OK

cancelGameErr(sender, gameId) ==
    LET game == games[gameId] IN
    IF game.player1 # sender THEN "Only game creator can cancel"
    ELSE IF game.player2 # ZeroAddr THEN "Cannot cancel game with two players"
    ELSE IF ~(now > game.commitDeadline + CANCEL_DELAY) THEN "Must wait before canceling"
    ELSE OK

cancelGame(sender, gameId) ==
    LET err == cancelGameErr(sender, gameId) IN
    IF err # OK THEN Revert
    ELSE
      /\ playerBalances[sender] + games[gameId].betAmount <= MaxRefund
      /\ playerBalances' = [playerBalances EXCEPT
                              ![games[gameId].player1] = @ + games[gameId].betAmount]
      /\ games' = [games EXCEPT ![gameId] =
                     [@ EXCEPT !.isCompleted = TRUE, !.result = "Expired"]]
      /\ credited' = creditedAfter(playerBalances')
      /\ UNCHANGED <<nextGameId, contractBalance, now, withdrawn>>

----------------------------------------------------------------------------
\* withdrawBalance and emergencyWithdraw.  The outbound call succeeds when the
\* contract holds the amount and the recipient accepts it (accepts).
\*
\* The call of line 300 hands control to the recipient before withdrawBalance
\* returns, and the recipient's code may call the contract again.  A nested
\* call of a function without nonReentrant (commitChoice, revealChoice,
\* handleExpiredGame, cancelGame) has the effect of the same call made in a
\* transaction of its own right after this one, because withdrawBalance
\* writes no storage after line 298; those runs are the ones of Next.  A
\* nested call of withdrawBalance itself is modelled here (reenters).

withdrawBalanceErr(sender, accepts) ==
    IF ~(playerBalances[sender] > 0) THEN "No balance to withdraw"
    ELSE IF ~(contractBalance >= playerBalances[sender] /\ accepts) THEN "Withdrawal failed"
    ELSE OK

balancesAtCall_Kept(sender) == playerBalances

\* storage when the outbound call is made: the balance is already zero
balancesAtCall(sender) == [playerBalances EXCEPT ![sender] = 0]

reentrantPayout_Stale(sender, entered, balances) == playerBalances[sender]

\* what a nested withdrawBalance by the recipient sends out: nonReentrant
\* reverts while the outer call is in progress (entered), and the balance it
\* would read is the one in storage at the call
reentrantPayout(sender, entered, balances) ==
    IF entered THEN 0 ELSE balances[sender]

\* variant: a failed transfer does not revert, the zeroed balance stays
withdrawBalance_NoRollback(sender, accepts, reenters) ==
    LET err == withdrawBalanceErr(sender, accepts)
        balance == playerBalances[sender]
    IN
    IF err = "No balance to withdraw" THEN Revert
    ELSE IF err # OK THEN
      /\ playerBalances' = balancesAtCall(sender)
      /\ UNCHANGED <<games, nextGameId, contractBalance, now, credited, withdrawn>>
    ELSE
      /\ playerBalances' = balancesAtCall(sender)
      /\ contractBalance' = contractBalance - balance
      /\ withdrawn' = [withdrawn EXCEPT ![sender] = @ + balance]
      /\ UNCHANGED <<games, nextGameId, now, credited>>

withdrawBalance(sender, accepts, reenters) ==
    LET err == withdrawBalanceErr(sender, accepts)
        balance == playerBalances[sender]
        atCall == balancesAtCall(sender)
        nested == IF reenters THEN reentrantPayout(sender, TRUE, atCall) ELSE 0
        nestedPaid == IF nested <= contractBalance - balance THEN nested ELSE 0
    IN
    IF err # OK THEN Revert
    ELSE
      /\ playerBalances' = atCall
      /\ contractBalance' = contractBalance - (balance + nestedPaid)
      /\ withdrawn' = [withdrawn EXCEPT ![sender] = @ + balance + nestedPaid]
      /\ UNCHANGED <<games, nextGameId, now, credited>>

emergencyWithdrawErr(sender, accepts) ==
    IF sender # owner THEN "OwnableUnauthorizedAccount"
    ELSE IF ~(contractBalance > 0) THEN "No funds to withdraw"
    ELSE IF ~accepts THEN "Emergency withdrawal failed"
    ELSE OK

emergencyWithdraw(sender, accepts) ==
    LET err == emergencyWithdrawErr(sender, accepts) IN
    IF err # OK THEN Revert
    ELSE
      /\ contractBalance' = 0
      /\ UNCHANGED <<games, nextGameId, playerBalances, now, credited, withdrawn>>

----------------------------------------------------------------------------
\* the clock: block.timestamp of the next block

Tick ==
    /\ now + TickStep <= StartTime + MaxElapsed
    /\ now' = now + TickStep
    /\ UNCHANGED <<games, nextGameId, playerBalances, contractBalance, credited, withdrawn>>

----------------------------------------------------------------------------

CreateGame ==
    /\ nextGameId <= MaxGames
    /\ \E a \in Creators, v \in CreateValues : createGame(a, v)
JoinGame == \E a \in Joiners, g \in GameIds, v \in JoinValues : joinGame(a, g, v)
CommitChoice ==
    \E a \in Accounts, g \in GameIds, s \in Seeds :
        \E h \in CommitInputs(a, g) : commitChoice(a, g, h, s)
RevealChoice ==
    \E a \in Accounts, g \in GameIds, c \in Choice, n \in Nonces : revealChoice(a, g, c, n)
HandleExpiredGame == \E a \in Accounts, g \in GameIds : handleExpiredGame(a, g)
CancelGame == \E a \in Accounts, g \in GameIds : cancelGame(a, g)
WithdrawBalance ==
    \E a \in Accounts, ok \in BOOLEAN, re \in BOOLEAN : withdrawBalance(a, ok, re)
EmergencyWithdraw == \E a \in Accounts, ok \in BOOLEAN : emergencyWithdraw(a, ok)

Next ==
    \/ CreateGame
    \/ JoinGame
    \/ CommitChoice
    \/ RevealChoice
    \/ HandleExpiredGame
    \/ CancelGame
    \/ WithdrawBalance
    \/ EmergencyWithdraw
    \/ Tick

Spec == Init /\ [][Next]_vars

\* Progress the environment guarantees: blocks keep being mined, so
\* block.timestamp advances, and handleExpiredGame, which anyone may call
\* (no sender check at lines 265-268), is eventually called when it would
\* succeed.  Players are never obliged to join, commit, reveal or withdraw.
FairSpec == Spec /\ WF_vars(Tick) /\ WF_vars(HandleExpiredGame)

\* The assignment of ids: games are created up to MaxIds, by either account,
\* and joined, while the clock runs; the games are not played.
CreateAny ==
    /\ nextGameId <= MaxIds
    /\ \E a \in Joiners, v \in CreateValues : createGame(a, v)
JoinAny == \E a \in Joiners, g \in AllIds, v \in JoinValues : joinGame(a, g, v)

NextIds ==
    \/ CreateAny
    \/ JoinAny
    \/ Tick

IdSpec == Init /\ [][NextIds]_vars

\* Games side by side: MaxPair games of the same stake, created by A and
\* joined by B, are played, swept and cancelled in every interleaving.  A
\* commits to Rock, B to Rock or Paper; K is the keeper who sweeps.
PairIds == 1..MaxPair
PairCommits(a) ==
    IF a = "A" THEN {Hash(Rock, CommitNonce(a), a)}
    ELSE {Hash(Rock, CommitNonce(a), a), Hash(Paper, CommitNonce(a), a)}

CreatePair == nextGameId <= MaxPair /\ createGame("A", 100)
JoinPair == \E g \in PairIds : joinGame("B", g, 100)
CommitPair ==
    \E a \in Joiners, g \in PairIds : \E h \in PairCommits(a) :
        commitChoice(a, g, h, 11)
RevealPair ==
    \E a \in Joiners, g \in PairIds, c \in {Rock, Paper} :
        revealChoice(a, g, c, CommitNonce(a))
SweepPair == \E g \in PairIds : handleExpiredGame("K", g)
CancelPair == \E g \in PairIds : cancelGame("A", g)

NextPair ==
    \/ CreatePair
    \/ JoinPair
    \/ CommitPair
    \/ RevealPair
    \/ SweepPair
    \/ CancelPair
    \/ Tick

PairSpec == Init /\ [][NextPair]_vars

----------------------------------------------------------------------------
\* Vocabulary of the properties

Played == {Rock, Paper, Scissors}

IsPlayer(game, a) == a # ZeroAddr /\ (a = game.player1 \/ a = game.player2)

StoredCommit(game, a) ==
    IF a = game.player1 THEN game.player1CommitHash ELSE game.player2CommitHash

HasRevealed(game, a) ==
    IF a = game.player1 THEN game.player1Revealed ELSE game.player2Revealed

RevealOpen(game) == game.revealDeadline > 0 /\ now <= game.revealDeadline

BothRevealed(game) == game.player1Revealed /\ game.player2Revealed

\* the amount added to an account's balance by the step
Credit(a) == playerBalances'[a] - playerBalances[a]

\* the step distributes the pot of game g
Distributes(g) == ~games[g].fundsDistributed /\ games'[g].fundsDistributed

\* no account other than the two players of the game is credited by the step
OnlyPlayersCredited(game) ==
    \A a \in Accounts : a \notin {game.player1, game.player2} => Credit(a) = 0

----------------------------------------------------------------------------
\* C1 (commitment binding): while the reveal phase is open, a participant who
\* has not revealed yet reveals successfully with (choice, nonce), choice one
\* of Rock, Paper, Scissors, if and only if the hash of (choice, nonce, the
\* caller) is the commitment stored for the caller; a player whose stored commitment is a hash computed for another
\* account (a copy of the opponent's commitment) can reveal with no
\* (choice, nonce) at all.
C1_CommitmentBinding ==
    \A g \in GameIds :
        LET game == games[g] IN
        /\ \A a \in Accounts, c \in Played, n \in Nonces :
            (IsPlayer(game, a) /\ RevealOpen(game) /\ ~HasRevealed(game, a))
                => (revealChoiceErr(a, g, c, n) = OK
                        <=> Hash(c, n, a) = StoredCommit(game, a))
        /\ \A a \in Accounts, b \in Accounts, c \in Choice, n \in Nonces :
            (IsPlayer(game, a) /\ b # a /\ StoredCommit(game, a) = Hash(c, n, b))
                => \A c2 \in Choice, n2 \in Nonces :
                        revealChoiceErr(a, g, c2, n2) # OK

\* player1 has revealed against its commitment while player2 holds a copy of
\* player1's hash
C1_Witness ==
    \E g \in GameIds :
        /\ games[g].player1Revealed
        /\ games[g].player2CommitHash = games[g].player1CommitHash
        /\ RevealOpen(games[g])

----------------------------------------------------------------------------
\* C2 (no choice is visible before both have committed): a choice is recorded
\* for a player only when both commitments are present, and every revealChoice
\* is rejected while a commitment is missing.
C2_RevealOnlyAfterBothCommitted ==
    \A g \in GameIds :
        LET game == games[g]
            bothCommitted == game.player1CommitHash # ZeroHash
                             /\ game.player2CommitHash # ZeroHash
        IN
        /\ (game.player1Revealed \/ game.player2Revealed
            \/ game.player1Choice # ChoiceNone \/ game.player2Choice # ChoiceNone)
                => bothCommitted
        /\ ~bothCommitted
                => \A a \in Accounts, c \in Choice, n \in Nonces :
                        revealChoiceErr(a, g, c, n) # OK

\* one player has revealed and the other has not yet
C2_Witness ==
    \E g \in GameIds :
        /\ games[g].player2Revealed
        /\ ~games[g].player1Revealed
        /\ games[g].player2Choice = Paper

----------------------------------------------------------------------------
\* C3 (conservation of value): the step that distributes a game's pot (the
\* second reveal or the sweep) credits the two players 2 * betAmount in total
\* and credits nobody else.
C3_Conservation ==
    [][\A g \in GameIds :
          Distributes(g) =>
              /\ Credit(games[g].player1) + Credit(games[g].player2)
                    = 2 * games[g].betAmount
              /\ OnlyPlayersCredited(games[g])]_vars

\* a pot of a positive stake has been distributed
C3_Witness ==
    \E g \in GameIds :
        /\ games[g].fundsDistributed
        /\ games[g].betAmount > 0
        /\ playerBalances[games[g].player1] + playerBalances[games[g].player2]
              = 2 * games[g].betAmount

----------------------------------------------------------------------------
\* C4 (exactly-once distribution): once a game's pot has been distributed (by
\* the second reveal or by the sweep), every revealChoice and every
\* handleExpiredGame on it reverts, and no step changes the game any more: the
\* fundsDistributed flag is never cleared and the pot is distributed once.
C4_Resolved(g) ==
    /\ handleExpiredGameErr(g) # OK
    /\ \A a \in Accounts, c \in Choice, n \in Nonces : revealChoiceErr(a, g, c, n) # OK

C4_ExactlyOnce ==
    /\ [](\A g \in GameIds : games[g].fundsDistributed => C4_Resolved(g))
    /\ [][\A g \in GameIds : games[g].fundsDistributed => games'[g] = games[g]]_vars

\* a game resolved by the second reveal, seen at a block past its reveal
\* deadline, where the sweep is refused only because the game is completed
C4_Witness ==
    \E g \in GameIds :
        /\ games[g].fundsDistributed
        /\ BothRevealed(games[g])
        /\ now > games[g].revealDeadline

----------------------------------------------------------------------------
\* C5 (a stalling player cannot lock the stakes): in every game with two
\* players that is not completed, once the deadline of its current phase has
\* passed (the commit deadline while a commitment is missing, the reveal
\* deadline afterwards) handleExpiredGame is accepted.
C5_DeadlinePassed(game) ==
    IF game.revealDeadline > 0 THEN now > game.revealDeadline
    ELSE now > game.commitDeadline

C5_StalledSessionSweepable ==
    \A g \in GameIds :
        (games[g].player2 # ZeroAddr /\ ~games[g].isCompleted
         /\ C5_DeadlinePassed(games[g]))
            => handleExpiredGameErr(g) = OK

----------------------------------------------------------------------------
\* C6 (outcome table): when both players have revealed, the result is
\* Player1Wins for (Rock, Scissors), (Paper, Rock), (Scissors, Paper), Draw for
\* the three pairs of equal choices and Player2Wins for the other three pairs.
C6_Player1WinsPairs == {<<Rock, Scissors>>, <<Paper, Rock>>, <<Scissors, Paper>>}
C6_DrawPairs == {<<Rock, Rock>>, <<Paper, Paper>>, <<Scissors, Scissors>>}
C6_Player2WinsPairs == {<<Scissors, Rock>>, <<Rock, Paper>>, <<Paper, Scissors>>}

C6_OutcomeTable ==
    \A g \in GameIds :
        LET game == games[g]
            pair == <<game.player1Choice, game.player2Choice>>
        IN
        BothRevealed(game) =>
            /\ pair \in C6_Player1WinsPairs => game.result = "Player1Wins"
            /\ pair \in C6_DrawPairs => game.result = "Draw"
            /\ pair \in C6_Player2WinsPairs => game.result = "Player2Wins"
            /\ pair \in C6_Player1WinsPairs \cup C6_DrawPairs \cup C6_Player2WinsPairs

\* both have revealed, Scissors against Rock
C6_Witness ==
    \E g \in GameIds :
        /\ BothRevealed(games[g])
        /\ games[g].player1Choice = Scissors
        /\ games[g].player2Choice = Rock

----------------------------------------------------------------------------
\* C7 (credits of the normal resolution): the step in which the second reveal
\* distributes the pot adds betAmount to each player's balance on a Draw, and
\* on a win adds 2 * betAmount to the winner's balance and nothing to the
\* loser's.
C7_NormalResolutionCredits ==
    [][\A g \in GameIds :
          (Distributes(g) /\ BothRevealed(games'[g])) =>
              LET game == games'[g] IN
              /\ game.result \in {"Draw", "Player1Wins", "Player2Wins"}
              /\ game.result = "Draw" =>
                    /\ Credit(game.player1) = game.betAmount
                    /\ Credit(game.player2) = game.betAmount
              /\ game.result = "Player1Wins" =>
                    /\ Credit(game.player1) = 2 * game.betAmount
                    /\ Credit(game.player2) = 0
              /\ game.result = "Player2Wins" =>
                    /\ Credit(game.player2) = 2 * game.betAmount
                    /\ Credit(game.player1) = 0]_vars

\* a drawn game right after its resolution: both hold exactly their stake
C7_Witness ==
    \E g \in GameIds :
        /\ BothRevealed(games[g])
        /\ games[g].result = "Draw"
        /\ playerBalances[games[g].player1] = games[g].betAmount
        /\ playerBalances[games[g].player2] = games[g].betAmount

----------------------------------------------------------------------------
\* C8 (forfeiture): in a game that is not completed, with exactly one player
\* revealed and the reveal deadline passed, the only change to the game is the
\* sweep's: the revealing player is credited 2 * betAmount, the other player
\* nothing, result is the revealing player's win, and isCompleted and
\* fundsDistributed are set.
C8_Forfeiture ==
    [][\A g \in GameIds :
          LET game == games[g] IN
          (/\ game.player1Revealed # game.player2Revealed
           /\ game.revealDeadline > 0 /\ now > game.revealDeadline
           /\ ~game.isCompleted
           /\ games'[g] # game) =>
              /\ games'[g] = [game EXCEPT
                    !.result = IF game.player1Revealed THEN "Player1Wins"
                               ELSE "Player2Wins",
                    !.isCompleted = TRUE,
                    !.fundsDistributed = TRUE]
              /\ Credit(IF game.player1Revealed THEN game.player1 ELSE game.player2)
                    = 2 * game.betAmount
              /\ Credit(IF game.player1Revealed THEN game.player2 ELSE game.player1)
                    = 0]_vars

\* a game swept after only player2 revealed
C8_Witness ==
    \E g \in GameIds :
        /\ games[g].fundsDistributed
        /\ games[g].isCompleted
        /\ games[g].player2Revealed /\ ~games[g].player1Revealed
        /\ games[g].result = "Player2Wins"

----------------------------------------------------------------------------
\* C9 (mutual silence): in a game that is not completed, with neither player
\* revealed and the reveal deadline passed, the only change to the game is the
\* sweep's: each player is credited betAmount, result becomes Expired, and
\* isCompleted and fundsDistributed are set.
C9_MutualSilence ==
    [][\A g \in GameIds :
          LET game == games[g] IN
          (/\ ~game.player1Revealed /\ ~game.player2Revealed
           /\ game.revealDeadline > 0 /\ now > game.revealDeadline
           /\ ~game.isCompleted
           /\ games'[g] # game) =>
              /\ games'[g] = [game EXCEPT !.result = "Expired",
                                          !.isCompleted = TRUE,
                                          !.fundsDistributed = TRUE]
              /\ Credit(game.player1) = game.betAmount
              /\ Credit(game.player2) = game.betAmount]_vars

\* a game swept with no reveal at all
C9_Witness ==
    \E g \in GameIds :
        /\ games[g].fundsDistributed
        /\ games[g].result = "Expired"
        /\ ~games[g].player1Revealed /\ ~games[g].player2Revealed

----------------------------------------------------------------------------
\* C10 (a completed session is immutable): once isCompleted is set, no step
\* changes any field of the game, and joinGame, commitChoice, revealChoice,
\* handleExpiredGame and cancelGame all revert on it.
C10_NoCallAccepted(g) ==
    /\ \A a \in Accounts, v \in JoinValues : joinGameErr(a, g, v) # OK
    /\ \A a \in Accounts : \A h \in CommitInputs(a, g) : commitChoiceErr(a, g, h) # OK
    /\ \A a \in Accounts, c \in Choice, n \in Nonces : revealChoiceErr(a, g, c, n) # OK
    /\ handleExpiredGameErr(g) # OK
    /\ \A a \in Accounts : cancelGameErr(a, g) # OK

C10_CompletedImmutable ==
    /\ [][\A g \in GameIds : games[g].isCompleted => games'[g] = games[g]]_vars
    /\ [](\A g \in GameIds : games[g].isCompleted => C10_NoCallAccepted(g))

----------------------------------------------------------------------------
\* C11 (completed implies distributed): whenever a game is completed, its
\* fundsDistributed flag is set in that state or in some later one, whether
\* the game ended by normal resolution, by handleExpiredGame or by
\* cancelGame; and once set the flag is never cleared or set again.
C11_CompletedEventuallyDistributed ==
    /\ \A g \in GameIds : [](games[g].isCompleted => <>games[g].fundsDistributed)
    /\ [][\A g \in GameIds :
            games[g].fundsDistributed => games'[g].fundsDistributed]_vars

----------------------------------------------------------------------------
\* C12 (withdrawal): a step that sends funds out to an account by
\* withdrawBalance sends exactly the balance the account had, leaves that
\* balance at zero and changes nothing else; a balance only ever decreases
\* that way; and a withdrawal whose transfer fails, or by an account with no
\* balance, is rejected (the whole call reverts, leaving every variable as it
\* was).
C12_Withdrawal ==
    /\ [][\A a \in Accounts :
            /\ withdrawn'[a] # withdrawn[a] =>
                  /\ playerBalances[a] > 0
                  /\ withdrawn'[a] - withdrawn[a] = playerBalances[a]
                  /\ contractBalance' = contractBalance - playerBalances[a]
                  /\ playerBalances' = [playerBalances EXCEPT ![a] = 0]
                  /\ UNCHANGED <<games, nextGameId, now, credited>>
            /\ playerBalances'[a] < playerBalances[a] =>
                  withdrawn'[a] # withdrawn[a]]_vars
    /\ [](\A a \in Accounts :
            /\ withdrawBalanceErr(a, FALSE) # OK
            /\ playerBalances[a] = 0 => withdrawBalanceErr(a, TRUE) # OK)

\* an account has withdrawn all that it was ever credited, and another
\* account's balance is refused because the contract no longer holds it
C12_Witness ==
    \E a \in Accounts, b \in Accounts :
        /\ withdrawn[a] > 0 /\ withdrawn[a] = credited[a] /\ playerBalances[a] = 0
        /\ playerBalances[b] > contractBalance

----------------------------------------------------------------------------
\* C13 (reentrancy safety): whatever the recipient does in the callback of
\* withdrawBalance, including calling withdrawBalance again, the total sent
\* out to an account never exceeds the total credited to it: what has been
\* sent out plus what is still owed is exactly what was credited.
C13_NoSecondPayout ==
    \A a \in Accounts :
        /\ withdrawn[a] <= credited[a]
        /\ withdrawn[a] + playerBalances[a] = credited[a]

\* an account has been paid while the contract still held enough for a
\* second payout of the same amount
C13_Witness ==
    \E a \in Accounts :
        /\ withdrawn[a] > 0
        /\ playerBalances[a] = 0
        /\ contractBalance >= withdrawn[a]

----------------------------------------------------------------------------
\* C14 (commit once): commitChoice is accepted only from one of the two
\* players of a joined game, up to commitDeadline, while that player has no
\* commitment stored; a step that stores a commitment writes one player's
\* slot only, in a joined game within the commit window; and a stored
\* commitment never changes afterwards, so of a player's attempts only the
\* first is stored.
C14_Accepted ==
    \A g \in GameIds, a \in Accounts : \A h \in CommitInputs(a, g) :
        commitChoiceErr(a, g, h) = OK =>
            /\ games[g].player1 # ZeroAddr /\ games[g].player2 # ZeroAddr
            /\ IsPlayer(games[g], a)
            /\ now <= games[g].commitDeadline
            /\ StoredCommit(games[g], a) = ZeroHash
            /\ h # ZeroHash

C14_Stored(g) ==
    LET game == games[g]
        after == games'[g]
        wrote1 == after.player1CommitHash # game.player1CommitHash
        wrote2 == after.player2CommitHash # game.player2CommitHash
    IN
    /\ game.player1CommitHash # ZeroHash => ~wrote1
    /\ game.player2CommitHash # ZeroHash => ~wrote2
    /\ ~(wrote1 /\ wrote2)
    /\ (wrote1 \/ wrote2) =>
          /\ game.player2 # ZeroAddr
          /\ now <= game.commitDeadline
          /\ after.player1CommitHash # ZeroHash \/ ~wrote1
          /\ after.player2CommitHash # ZeroHash \/ ~wrote2

C14_CommitOnce ==
    /\ []C14_Accepted
    /\ [][\A g \in GameIds : C14_Stored(g)]_vars

\* one player has committed and could still try again within the window,
\* the other has not committed yet
C14_Witness ==
    \E g \in GameIds :
        /\ games[g].player1CommitHash # ZeroHash
        /\ games[g].player2CommitHash = ZeroHash
        /\ now <= games[g].commitDeadline
        /\ \E h \in CommitInputs(games[g].player1, g) :
              h # ZeroHash /\ h # games[g].player1CommitHash

----------------------------------------------------------------------------
\* C15 (reveal guards): revealChoice is accepted only from a player of the
\* game who has a commitment stored and has not revealed, while the reveal
\* phase is open (revealDeadline set and now <= revealDeadline), and only with
\* Rock, Paper or Scissors; so a late reveal, a second reveal, a reveal by a
\* non-player and a reveal of None are rejected.  A step that records a
\* reveal does so under those conditions, and a recorded reveal never changes.
C15_Accepted ==
    \A g \in GameIds, a \in Accounts, c \in Choice, n \in Nonces :
        revealChoiceErr(a, g, c, n) = OK =>
            /\ IsPlayer(games[g], a)
            /\ StoredCommit(games[g], a) # ZeroHash
            /\ RevealOpen(games[g])
            /\ ~HasRevealed(games[g], a)
            /\ c \in Played

C15_Recorded(g) ==
    LET game == games[g]
        after == games'[g]
        wrote1 == \/ after.player1Revealed # game.player1Revealed
                  \/ after.player1Choice # game.player1Choice
        wrote2 == \/ after.player2Revealed # game.player2Revealed
                  \/ after.player2Choice # game.player2Choice
    IN
    /\ ~(wrote1 /\ wrote2)
    /\ wrote1 => /\ ~game.player1Revealed /\ after.player1Revealed
                 /\ after.player1Choice \in Played
                 /\ game.player1CommitHash # ZeroHash
                 /\ RevealOpen(game)
    /\ wrote2 => /\ ~game.player2Revealed /\ after.player2Revealed
                 /\ after.player2Choice \in Played
                 /\ game.player2CommitHash # ZeroHash
                 /\ RevealOpen(game)

C15_RevealGuards ==
    /\ []C15_Accepted
    /\ [][\A g \in GameIds : C15_Recorded(g)]_vars

\* the reveal phase is open, player1 has revealed (and could try again), and
\* player2 is committed to None, the choice that cannot be revealed
C15_Witness ==
    \E g \in GameIds :
        /\ RevealOpen(games[g])
        /\ games[g].player1Revealed /\ ~games[g].player2Revealed
        /\ games[g].player2CommitHash =
              Hash(ChoiceNone, CommitNonce(games[g].player2), games[g].player2)

----------------------------------------------------------------------------
\* C16 (sweep guards): handleExpiredGame is accepted only on a game whose
\* revealDeadline is set, with now strictly past it, and which is not
\* completed; a step that settles a game without a reveal (a sweep) happens
\* only from such a state, so before expiry, without a reveal phase or on a
\* completed game the call changes nothing.
SweepPreconditions(game) ==
    /\ game.revealDeadline > 0
    /\ now > game.revealDeadline
    /\ ~game.isCompleted

SweepStep(g) ==
    /\ Distributes(g)
    /\ games'[g].player1Revealed = games[g].player1Revealed
    /\ games'[g].player2Revealed = games[g].player2Revealed

C16_SweepGuards ==
    /\ [](\A g \in GameIds :
            handleExpiredGameErr(g) = OK => SweepPreconditions(games[g]))
    /\ [][\A g \in GameIds : SweepStep(g) => SweepPreconditions(games[g])]_vars

\* the clock stands exactly at the reveal deadline of an unsettled game: the
\* sweep is attempted one second too early
C16_Witness ==
    \E g \in GameIds :
        /\ games[g].revealDeadline > 0
        /\ now = games[g].revealDeadline
        /\ ~games[g].isCompleted
        /\ ~BothRevealed(games[g])

----------------------------------------------------------------------------
\* C17 (permissionless sweep): whenever the sweep's preconditions hold,
\* handleExpiredGame can be executed by every account, player or not; and
\* every sweep step is the step handleExpiredGame takes for every caller, so
\* the game and the credits it leaves do not depend on who called.
C17_PermissionlessSweep ==
    /\ [](\A g \in GameIds : SweepPreconditions(games[g]) =>
            \A a \in Accounts : ENABLED <<handleExpiredGame(a, g)>>_vars)
    /\ [][\A g \in GameIds : SweepStep(g) =>
            \A a \in Accounts : handleExpiredGame(a, g)]_vars

\* a game swept in favour of player1, the only one to have revealed
C17_Witness ==
    \E g \in GameIds :
        /\ games[g].fundsDistributed
        /\ games[g].player1Revealed /\ ~games[g].player2Revealed
        /\ games[g].result = "Player1Wins"
        /\ playerBalances[games[g].player1] >= 2 * games[g].betAmount

----------------------------------------------------------------------------
\* C18 (joining): joinGame is accepted only on an existing game without a
\* second player, from an account other than the creator, with a value equal
\* to the game's betAmount; a step that sets player2 sets it from empty to an
\* account other than player1, sets commitDeadline to now + COMMIT_DURATION,
\* adds exactly betAmount to the contract's holdings and changes nothing
\* else; so player1 and player2 always differ and player2 never changes once
\* set.
C18_Accepted ==
    \A g \in GameIds, a \in Accounts, v \in JoinValues :
        joinGameErr(a, g, v) = OK =>
            /\ games[g].player1 # ZeroAddr
            /\ games[g].player2 = ZeroAddr
            /\ a # games[g].player1
            /\ v = games[g].betAmount

C18_Distinct ==
    \A g \in GameIds :
        games[g].player2 # ZeroAddr =>
            games[g].player1 # ZeroAddr /\ games[g].player1 # games[g].player2

C18_Joined(g) ==
    LET game == games[g] IN
    /\ game.player2 # ZeroAddr => games'[g].player2 = game.player2
    /\ games'[g].player2 # game.player2 =>
          /\ game.player1 # ZeroAddr
          /\ games'[g].player2 # game.player1
          /\ games'[g] = [game EXCEPT !.player2 = games'[g].player2,
                                      !.commitDeadline = now + COMMIT_DURATION]
          /\ contractBalance' = contractBalance + game.betAmount
          /\ UNCHANGED <<nextGameId, playerBalances, now, credited, withdrawn>>

C18_Joining ==
    /\ [](C18_Accepted /\ C18_Distinct)
    /\ [][\A g \in GameIds : C18_Joined(g)]_vars

\* a game joined in this very block: both stakes are held and the commit
\* window has just opened
C18_Witness ==
    \E g \in GameIds :
        /\ games[g].player2 # ZeroAddr
        /\ games[g].commitDeadline = now + COMMIT_DURATION
        /\ contractBalance = 2 * games[g].betAmount

----------------------------------------------------------------------------
\* C19 (cancelling): cancelGame is accepted only from the game's creator and
\* only while the game has no second player; a step that credits an account
\* without settling a game is a cancellation: it credits the creator of a
\* game without player2 exactly that game's betAmount, credits nobody else,
\* and leaves the game completed with result Expired and nothing else changed.
C19_Accepted ==
    \A g \in GameIds, a \in Accounts :
        cancelGameErr(a, g) = OK =>
            a = games[g].player1 /\ games[g].player2 = ZeroAddr

C19_RefundStep ==
    /\ \E a \in Accounts : Credit(a) > 0
    /\ \A g \in GameIds : ~Distributes(g)

C19_Refunded(g) ==
    LET game == games[g] IN
    /\ game.player1 # ZeroAddr /\ game.player2 = ZeroAddr
    /\ Credit(game.player1) = game.betAmount
    /\ \A b \in Accounts \ {game.player1} : Credit(b) = 0
    /\ games' = [games EXCEPT ![g] =
                   [game EXCEPT !.isCompleted = TRUE, !.result = "Expired"]]
    /\ UNCHANGED <<nextGameId, contractBalance, now, withdrawn>>

C19_Cancelling ==
    /\ []C19_Accepted
    /\ [][C19_RefundStep => \E g \in GameIds : C19_Refunded(g)]_vars

\* a cancelled game: never joined, completed as Expired, its creator
\* credited the stake
C19_Witness ==
    \E g \in GameIds :
        /\ games[g].isCompleted /\ games[g].result = "Expired"
        /\ games[g].player2 = ZeroAddr
        /\ credited[games[g].player1] = games[g].betAmount
        /\ playerBalances[games[g].player1] = games[g].betAmount

----------------------------------------------------------------------------
\* C20 (grace period): cancelGame by the creator is rejected until the grace
\* period (CANCEL_DELAY) has elapsed since the game was created, and the
\* game stays open (not completed) meanwhile.  Every game is created at
\* StartTime or later, so while now < StartTime + CANCEL_DELAY no game is
\* older than the grace period.
C20_GracePeriod ==
    \A g \in GameIds :
        (/\ games[g].player1 # ZeroAddr
         /\ games[g].player2 = ZeroAddr
         /\ now < StartTime + CANCEL_DELAY) =>
            /\ cancelGameErr(games[g].player1, g) # OK
            /\ ~games[g].isCompleted

----------------------------------------------------------------------------
\* C21 (creating): createGame is accepted exactly for a value within
\* [MIN_BET_AMOUNT, MAX_BET_AMOUNT], bounds included; the step that creates a
\* game advances nextGameId by one, adds the value to the contract's
\* holdings and stores at the old nextGameId a game with player1 the caller,
\* that betAmount, no player2, no commitments, no deadlines, result Pending
\* and isCompleted false, changing nothing else; no other step advances
\* nextGameId or creates a game.
C21_Accepted ==
    \A v \in CreateValues :
        createGameErr(v) = OK <=> (MIN_BET_AMOUNT <= v /\ v <= MAX_BET_AMOUNT)

C21_Created ==
    LET id == nextGameId
        stake == contractBalance' - contractBalance
    IN
    /\ nextGameId' = nextGameId + 1
    /\ MIN_BET_AMOUNT <= stake /\ stake <= MAX_BET_AMOUNT
    /\ games[id].player1 = ZeroAddr
    /\ games'[id].player1 \in Accounts
    /\ games'[id].betAmount = stake
    /\ games'[id].player2 = ZeroAddr
    /\ games'[id].player1CommitHash = ZeroHash
    /\ games'[id].player2CommitHash = ZeroHash
    /\ games'[id].player1Choice = ChoiceNone /\ games'[id].player2Choice = ChoiceNone
    /\ games'[id].commitDeadline = 0 /\ games'[id].revealDeadline = 0
    /\ games'[id].result = "Pending"
    /\ ~games'[id].player1Revealed /\ ~games'[id].player2Revealed
    /\ ~games'[id].isCompleted /\ ~games'[id].fundsDistributed
    /\ \A g \in GameIds \ {id} : games'[g] = games[g]
    /\ UNCHANGED <<playerBalances, now, credited, withdrawn>>

C21_Creating ==
    /\ []C21_Accepted
    /\ [][(\/ nextGameId' # nextGameId
           \/ \E g \in GameIds : games[g].player1 # games'[g].player1)
          => C21_Created]_vars

\* a game created with the largest stake allowed
C21_Witness ==
    \E g \in GameIds :
        /\ games[g].player1 # ZeroAddr
        /\ games[g].betAmount = MAX_BET_AMOUNT
        /\ nextGameId = g + 1

----------------------------------------------------------------------------
\* C22 (end-to-end scenario): from the initial state, createGame with 100 by
\* A, joinGame with 100 by B, A's commit of H(Rock, 7, A), B's commit of
\* H(Scissors, 9, B), A's reveal of (Rock, 7) and B's reveal of
\* (Scissors, 9) are each accepted in the state the previous one leaves (the
\* clock being within the window), each leads to the next stage, and the
\* last leaves result Player1Wins with A credited 200 and B 0; A's
\* withdrawBalance is then accepted, leaves A's balance at 0 and sends 200.
C22_Ledger(balanceA, held, sentA) ==
    /\ playerBalances = [a \in Accounts |-> IF a = "A" THEN balanceA ELSE 0]
    /\ credited = [a \in Accounts |-> IF a = "A" THEN balanceA + sentA ELSE 0]
    /\ withdrawn = [a \in Accounts |-> IF a = "A" THEN sentA ELSE 0]
    /\ contractBalance = held

C22_Created == [ZeroGame EXCEPT !.player1 = "A", !.betAmount = 100]
C22_Joined == [C22_Created EXCEPT !.player2 = "B",
                                  !.commitDeadline = games[1].commitDeadline]
C22_Committed1 == [C22_Joined EXCEPT !.player1CommitHash = Hash(Rock, 7, "A")]
C22_Committed2 == [C22_Committed1 EXCEPT
                      !.player2CommitHash = Hash(Scissors, 9, "B"),
                      !.revealDeadline = games[1].revealDeadline,
                      !.randomSeed = games[1].randomSeed]
C22_Revealed1 == [C22_Committed2 EXCEPT !.player1Choice = Rock,
                                        !.player1Revealed = TRUE]
C22_Resolved == [C22_Revealed1 EXCEPT !.player2Choice = Scissors,
                                      !.player2Revealed = TRUE,
                                      !.result = "Player1Wins",
                                      !.isCompleted = TRUE,
                                      !.fundsDistributed = TRUE]

C22_Stage(k) ==
    CASE k = 0 -> games[1] = ZeroGame /\ nextGameId = 1 /\ C22_Ledger(0, 0, 0)
      [] k = 1 -> games[1] = C22_Created /\ C22_Ledger(0, 100, 0)
      [] k = 2 -> games[1] = C22_Joined /\ C22_Ledger(0, 200, 0)
      [] k = 3 -> games[1] = C22_Committed1 /\ C22_Ledger(0, 200, 0)
      [] k = 4 -> games[1] = C22_Committed2 /\ C22_Ledger(0, 200, 0)
      [] k = 5 -> games[1] = C22_Revealed1 /\ C22_Ledger(0, 200, 0)
      [] k = 6 -> games[1] = C22_Resolved /\ C22_Ledger(200, 200, 0)
      [] k = 7 -> games[1] = C22_Resolved /\ C22_Ledger(0, 0, 200)

C22_StepsAccepted ==
    /\ C22_Stage(0) => createGameErr(100) = OK
    /\ C22_Stage(1) => joinGameErr("B", 1, 100) = OK
    /\ C22_Stage(2) /\ now <= games[1].commitDeadline =>
          commitChoiceErr("A", 1, Hash(Rock, 7, "A")) = OK
    /\ C22_Stage(3) /\ now <= games[1].commitDeadline =>
          commitChoiceErr("B", 1, Hash(Scissors, 9, "B")) = OK
    /\ C22_Stage(4) /\ now <= games[1].revealDeadline =>
          revealChoiceErr("A", 1, Rock, 7) = OK
    /\ C22_Stage(5) /\ now <= games[1].revealDeadline =>
          revealChoiceErr("B", 1, Scissors, 9) = OK
    /\ C22_Stage(6) => withdrawBalanceErr("A", TRUE) = OK

C22_StepsLead ==
    /\ C22_Stage(0) /\ createGame("A", 100) => C22_Stage(1)'
    /\ C22_Stage(1) /\ joinGame("B", 1, 100) => C22_Stage(2)'
    /\ C22_Stage(2) /\ games'[1].player1CommitHash = Hash(Rock, 7, "A")
          => C22_Stage(3)'
    /\ C22_Stage(3) /\ games'[1].player2CommitHash = Hash(Scissors, 9, "B")
          => C22_Stage(4)'
    /\ C22_Stage(4) /\ games'[1].player1Revealed => C22_Stage(5)'
    /\ C22_Stage(5) /\ games'[1].player2Revealed => C22_Stage(6)'
    /\ C22_Stage(6) /\ withdrawn'["A"] # withdrawn["A"] => C22_Stage(7)'

C22_EndToEnd ==
    /\ []C22_StepsAccepted
    /\ [][UNCHANGED <<games, withdrawn>> \/ C22_StepsLead]_vars

\* the end of the scenario: A has won with Rock against Scissors and has
\* withdrawn the 200, the only amount ever credited
C22_Witness == C22_Stage(7)

----------------------------------------------------------------------------
\* C23 (incorrect reveal): in a joined game where player1 has committed
\* H(choice, nonce, player1) for a choice of Rock, Paper or Scissors and
\* player2 has not committed, player1's revealChoice with that choice and a
\* different nonce is rejected with "Invalid reveal".
C23_IncorrectRevealRejected ==
    \A g \in GameIds, c \in Played, n \in Nonces, m \in Nonces :
        (/\ games[g].player2 # ZeroAddr
         /\ games[g].player1CommitHash = Hash(c, n, games[g].player1)
         /\ games[g].player2CommitHash = ZeroHash
         /\ m # n) =>
            revealChoiceErr(games[g].player1, g, c, m) = "Invalid reveal"

----------------------------------------------------------------------------
\* C24 (transactional failure): a call of createGame, joinGame, commitChoice,
\* revealChoice, handleExpiredGame, cancelGame or withdrawBalance in which a
\* check fails changes nothing: every step that changes a game, a balance or
\* nextGameId is the complete effect of a call all of whose checks passed
\* (or, for the contract's holdings alone, of the owner's emergencyWithdraw).
C24_AcceptedCall ==
    \/ \E a \in Creators, v \in CreateValues :
          createGameErr(v) = OK /\ createGame(a, v)
    \/ \E a \in Joiners, g \in GameIds, v \in JoinValues :
          joinGameErr(a, g, v) = OK /\ joinGame(a, g, v)
    \/ \E a \in Accounts, g \in GameIds, sd \in Seeds : \E h \in CommitInputs(a, g) :
          commitChoiceErr(a, g, h) = OK /\ commitChoice(a, g, h, sd)
    \/ \E a \in Accounts, g \in GameIds, c \in Choice, n \in Nonces :
          revealChoiceErr(a, g, c, n) = OK /\ revealChoice(a, g, c, n)
    \/ \E a \in Accounts, g \in GameIds :
          handleExpiredGameErr(g) = OK /\ handleExpiredGame(a, g)
    \/ \E a \in Accounts, g \in GameIds :
          cancelGameErr(a, g) = OK /\ cancelGame(a, g)
    \/ \E a \in Accounts, re \in BOOLEAN :
          withdrawBalanceErr(a, TRUE) = OK /\ withdrawBalance(a, TRUE, re)

C24_TransactionalFailure ==
    [][\/ UNCHANGED <<games, nextGameId, playerBalances, credited, withdrawn>>
       \/ C24_AcceptedCall]_vars

\* a state where calls fail at every depth: an account holds a balance whose
\* transfer fails after the balance was zeroed, on a game whose reveal
\* window has closed with a reveal missing
C24_Witness ==
    \E a \in Accounts, g \in GameIds :
        /\ playerBalances[a] > 0
        /\ withdrawBalanceErr(a, FALSE) = "Withdrawal failed"
        /\ games[g].revealDeadline > 0 /\ now > games[g].revealDeadline
        /\ \E b \in Accounts : IsPlayer(games[g], b) /\ ~HasRevealed(games[g], b)

----------------------------------------------------------------------------
\* C25 (atomic resolution): no reachable state has both players revealed
\* with result Pending, isCompleted false or fundsDistributed false; the step
\* in which the second reveal is recorded also sets the result, isCompleted
\* and fundsDistributed and credits the pot.
C25_NoHalfResolved ==
    \A g \in GameIds :
        BothRevealed(games[g]) =>
            /\ games[g].result \in {"Player1Wins", "Player2Wins", "Draw"}
            /\ games[g].isCompleted
            /\ games[g].fundsDistributed

C25_SecondReveal(g) ==
    (~BothRevealed(games[g]) /\ BothRevealed(games'[g])) =>
        /\ Distributes(g)
        /\ games'[g].isCompleted
        /\ games'[g].result =
              determineWinner(games'[g].player1Choice, games'[g].player2Choice)
        /\ Credit(games[g].player1) + Credit(games[g].player2)
              = 2 * games[g].betAmount

C25_AtomicResolution ==
    /\ []C25_NoHalfResolved
    /\ [][\A g \in GameIds : C25_SecondReveal(g)]_vars

\* a game resolved by its second reveal, inside the reveal window
C25_Witness ==
    \E g \in GameIds :
        /\ BothRevealed(games[g])
        /\ now <= games[g].revealDeadline
        /\ games[g].result = "Draw"
        /\ playerBalances[games[g].player2] = games[g].betAmount

----------------------------------------------------------------------------
\* C26 (opening of the reveal phase): in every reachable state revealDeadline
\* is set exactly when both commitments are stored; the step that sets it is
\* the one that stores the second commitment, and sets it to
\* now + REVEAL_DURATION; once set it never changes.
C26_SetIffBothCommitted ==
    \A g \in GameIds :
        games[g].revealDeadline > 0 <=>
            (games[g].player1CommitHash # ZeroHash /\
             games[g].player2CommitHash # ZeroHash)

C26_Opened(g) ==
    LET game == games[g]
        after == games'[g]
    IN
    after.revealDeadline # game.revealDeadline =>
        /\ game.revealDeadline = 0
        /\ after.revealDeadline = now + REVEAL_DURATION
        /\ game.player1CommitHash = ZeroHash \/ game.player2CommitHash = ZeroHash
        /\ after.player1CommitHash # ZeroHash /\ after.player2CommitHash # ZeroHash

C26_RevealPhaseOpens ==
    /\ []C26_SetIffBothCommitted
    /\ [][\A g \in GameIds : C26_Opened(g)]_vars

\* the second commitment arrived in the last second of the commit window
C26_Witness ==
    \E g \in GameIds :
        /\ games[g].revealDeadline = now + REVEAL_DURATION
        /\ now = games[g].commitDeadline
        /\ games[g].player1CommitHash # ZeroHash
        /\ games[g].player2CommitHash # ZeroHash

----------------------------------------------------------------------------
\* C27 (a started game ends): in a game that was not cancelled, once both
\* commitments are stored the game eventually is completed with its funds
\* distributed, whether both, one or none of the players reveal, provided
\* the clock passes revealDeadline and handleExpiredGame is called when it
\* would be accepted (FairSpec).  The clock of the model stops at
\* LastTick, so the property is stated for the deadlines it can pass.
LastTick == StartTime + TickStep * (MaxElapsed \div TickStep)

\* cancelGame is the only code that completes a game without distributing
Cancelled(game) == game.isCompleted /\ ~game.fundsDistributed

C27_StartedGameEnds ==
    \A g \in GameIds :
        [](( /\ games[g].revealDeadline > 0
             /\ games[g].revealDeadline < LastTick
             /\ ~Cancelled(games[g]) )
           => <>(games[g].isCompleted /\ games[g].fundsDistributed))

\* a game ended by the sweep after its reveal window closed with no reveal
C27_Witness ==
    \E g \in GameIds :
        /\ games[g].revealDeadline > 0
        /\ games[g].revealDeadline < LastTick
        /\ now > games[g].revealDeadline
        /\ games[g].isCompleted /\ games[g].fundsDistributed
        /\ ~games[g].player1Revealed /\ ~games[g].player2Revealed
        /\ credited[games[g].player2] = games[g].betAmount

----------------------------------------------------------------------------
\* C28 (who changes balances): a step that creates a game, sets player2,
\* stores a commitment, or records a reveal without completing the game
\* leaves every balance unchanged; a balance increases only in a step that
\* settles a game of which the account is a player (second reveal or sweep)
\* or that refunds the creator of an unjoined game its stake; a balance
\* decreases only by the account's own withdrawBalance, which leaves it 0.
C28_NoLedgerCall(g) ==
    LET game == games[g]
        after == games'[g]
    IN
    \/ nextGameId' # nextGameId
    \/ after.player2 # game.player2
    \/ after.player1CommitHash # game.player1CommitHash
    \/ after.player2CommitHash # game.player2CommitHash
    \/ /\ after.player1Revealed # game.player1Revealed
          \/ after.player2Revealed # game.player2Revealed
       /\ ~BothRevealed(after)

C28_Refund(g, a) ==
    /\ a = games[g].player1
    /\ games[g].player2 = ZeroAddr
    /\ games'[g].isCompleted /\ games'[g].result = "Expired"
    /\ Credit(a) = games[g].betAmount

C28_Step ==
    /\ \A g \in GameIds : C28_NoLedgerCall(g) => playerBalances' = playerBalances
    /\ \A a \in Accounts :
          /\ Credit(a) > 0 =>
                \E g \in GameIds :
                    \/ Distributes(g) /\ IsPlayer(games[g], a)
                    \/ C28_Refund(g, a)
          /\ Credit(a) < 0 =>
                /\ playerBalances'[a] = 0
                /\ withdrawn'[a] = withdrawn[a] + playerBalances[a]

C28_BalanceWriters ==
    [][UNCHANGED <<games, nextGameId, playerBalances>> \/ C28_Step]_vars

\* a game played up to its first reveal without any balance having changed
C28_Witness ==
    \E g \in GameIds :
        /\ games[g].player1Revealed # games[g].player2Revealed
        /\ ~games[g].isCompleted
        /\ \A a \in Accounts : playerBalances[a] = 0 /\ credited[a] = 0

----------------------------------------------------------------------------
\* C29 (determined outcome): the result and the credits of a game resolved
\* by its two reveals are a function of the stake and the two revealed
\* choices alone, so any two runs with the same stake and choices end
\* alike, whatever the seed, the nonces, the times of the calls and the
\* order of the two players' commits and reveals.
C29_Outcome(stake, choice1, choice2) ==
    IF <<choice1, choice2>> \in C6_Player1WinsPairs
    THEN [result |-> "Player1Wins", credit1 |-> 2 * stake, credit2 |-> 0]
    ELSE IF <<choice1, choice2>> \in C6_Player2WinsPairs
    THEN [result |-> "Player2Wins", credit1 |-> 0, credit2 |-> 2 * stake]
    ELSE [result |-> "Draw", credit1 |-> stake, credit2 |-> stake]

C29_DeterminedOutcome ==
    [][\A g \in GameIds :
        (~BothRevealed(games[g]) /\ BothRevealed(games'[g])) =>
            [result |-> games'[g].result,
             credit1 |-> Credit(games[g].player1),
             credit2 |-> Credit(games[g].player2)]
              = C29_Outcome(games[g].betAmount,
                            games'[g].player1Choice, games'[g].player2Choice)]_vars

\* a game resolved after a run that differs from the scenario of C22: A
\* committed with the other nonce, the seed is the other one, and the clock
\* had advanced
C29_Witness ==
    \E g \in GameIds :
        /\ BothRevealed(games[g])
        /\ games[g].randomSeed = 12
        /\ games[g].player1CommitHash = Hash(Rock, 9, games[g].player1)
        /\ games[g].player2Choice = Scissors
        /\ games[g].result = "Player1Wins"
        /\ now > StartTime

----------------------------------------------------------------------------
\* C30 (ids are unique and never reused): nextGameId starts at 1 and only
\* increases; the ids assigned so far are exactly those below nextGameId;
\* createGame stores the new game at the old nextGameId, a slot no game
\* occupied, and advances the counter by one; and no step replaces or
\* removes the creator or the stake of an existing game.
C30_Assigned ==
    /\ nextGameId >= 1
    /\ \A id \in AllIds : games[id].player1 # ZeroAddr <=> id < nextGameId

C30_Step ==
    /\ nextGameId' >= nextGameId
    /\ nextGameId' # nextGameId =>
          /\ nextGameId' = nextGameId + 1
          /\ games[nextGameId].player1 = ZeroAddr
          /\ games'[nextGameId].player1 # ZeroAddr
          /\ \A id \in AllIds \ {nextGameId} : games'[id] = games[id]
    /\ \A id \in AllIds :
          games[id].player1 # ZeroAddr =>
              /\ games'[id].player1 = games[id].player1
              /\ games'[id].betAmount = games[id].betAmount

C30_UniqueIds ==
    /\ []C30_Assigned
    /\ [][C30_Step]_vars

\* every id has been assigned, to games of different creators and stakes,
\* the first of them joined before the last was created
C30_Witness ==
    /\ nextGameId = MaxIds + 1
    /\ games[1].player2 # ZeroAddr
    /\ games[MaxIds].commitDeadline = 0
    /\ games[1].commitDeadline < now + COMMIT_DURATION
    /\ games[1].player1 # games[MaxIds].player1
    /\ games[1].betAmount # games[MaxIds].betAmount

----------------------------------------------------------------------------
\* C31 (independent games): a step that changes a game changes no other
\* game; and a step that leaves a game and the clock unchanged (a call on
\* another game) changes the outcome of no joinGame, commitChoice,
\* revealChoice, handleExpiredGame or cancelGame call on it: acceptance
\* does not depend on the state of the other games.
C31_Frame ==
    \A g \in PairIds :
        games'[g] # games[g] => \A h \in AllIds \ {g} : games'[h] = games[h]

C31_SameAnswers(g) ==
    /\ \A a \in Accounts, v \in JoinValues :
          joinGameErr(a, g, v)' = joinGameErr(a, g, v)
    /\ \A a \in Accounts : \A h \in PairCommits(a) \cup {ZeroHash} :
          commitChoiceErr(a, g, h)' = commitChoiceErr(a, g, h)
    /\ \A a \in Accounts, c \in Choice, n \in Nonces :
          revealChoiceErr(a, g, c, n)' = revealChoiceErr(a, g, c, n)
    /\ handleExpiredGameErr(g)' = handleExpiredGameErr(g)
    /\ \A a \in Accounts : cancelGameErr(a, g)' = cancelGameErr(a, g)

C31_IndependentGames ==
    [][\/ UNCHANGED vars
       \/ /\ C31_Frame
          /\ \A g \in PairIds :
                (games'[g] = games[g] /\ now' = now) => C31_SameAnswers(g)]_vars

\* two games at different stages: one settled by the sweep, the other
\* waiting for its second commitment
C31_Witness ==
    \E g \in PairIds, h \in PairIds :
        /\ games[g].fundsDistributed /\ ~BothRevealed(games[g])
        /\ games[h].player2 # ZeroAddr
        /\ games[h].player1CommitHash # ZeroHash
        /\ games[h].player2CommitHash = ZeroHash
        /\ now <= games[h].commitDeadline

----------------------------------------------------------------------------
\* C32 (solvency): in every reachable state the contract holds at least the
\* sum of all playerBalances plus the stakes deposited in the games that are
\* not yet completed, so that a withdrawBalance by an account with a
\* positive balance, whose recipient accepts the transfer, is accepted.
RECURSIVE SumBalances(_)
SumBalances(S) ==
    IF S = {} THEN 0
    ELSE LET a == CHOOSE x \in S : TRUE IN
         playerBalances[a] + SumBalances(S \ {a})

\* the stakes a game holds in escrow: one per player, until it is completed
Escrow(game) ==
    IF game.isCompleted THEN 0
    ELSE (IF game.player1 # ZeroAddr THEN game.betAmount ELSE 0)
       + (IF game.player2 # ZeroAddr THEN game.betAmount ELSE 0)

RECURSIVE SumEscrow(_)
SumEscrow(S) ==
    IF S = {} THEN 0
    ELSE LET g == CHOOSE x \in S : TRUE IN
         Escrow(games[g]) + SumEscrow(S \ {g})

----------------------------------------------------------------------------
\* C33 (credits never exceed deposits): the total credited to player
\* balances on behalf of a game never exceeds the stakes deposited into it,
\* betAmount while only the creator has deposited and 2 * betAmount after a
\* join; and cancelGame credits the refund of a game at most once.  Of the
\* ids of this specification only those in GameIds are ever assigned, and
\* MaxGames is 1, so the credits of all accounts are those of that game.
RECURSIVE SumCredited(_)
SumCredited(S) ==
    IF S = {} THEN 0
    ELSE LET a == CHOOSE x \in S : TRUE IN credited[a] + SumCredited(S \ {a})

Deposited(game) ==
    (IF game.player1 # ZeroAddr THEN game.betAmount ELSE 0)
  + (IF game.player2 # ZeroAddr THEN game.betAmount ELSE 0)

RECURSIVE SumDeposited(_)
SumDeposited(S) ==
    IF S = {} THEN 0
    ELSE LET g == CHOOSE x \in S : TRUE IN
         Deposited(games[g]) + SumDeposited(S \ {g})

C33_CreditsWithinDeposits ==
    /\ [](SumCredited(Accounts) <= SumDeposited(AllIds))
    /\ [][\A g \in GameIds :
            (games[g].isCompleted /\ games[g].player2 = ZeroAddr) =>
                Credit(games[g].player1) = 0]_vars

----------------------------------------------------------------------------
\* C34 (reveal and sweep exclude each other): at no clock value are
\* revealChoice and handleExpiredGame both accepted on the same game; with
\* the clock exactly at revealDeadline a reveal that matches the caller's
\* commitment is accepted and the sweep is rejected; and once a sweep has
\* settled a game every reveal on it is rejected and its reveal flags and
\* choices never change again.
Swept(game) == game.fundsDistributed /\ ~BothRevealed(game)

C34_ValidReveal(game, a, c, n) ==
    /\ IsPlayer(game, a)
    /\ c \in Played
    /\ StoredCommit(game, a) = Hash(c, n, a)
    /\ ~HasRevealed(game, a)

C34_Exclusive ==
    \A g \in GameIds :
        /\ \A a \in Accounts, c \in Choice, n \in Nonces :
              ~(revealChoiceErr(a, g, c, n) = OK /\ handleExpiredGameErr(g) = OK)
        /\ (games[g].revealDeadline > 0 /\ now = games[g].revealDeadline) =>
              /\ handleExpiredGameErr(g) # OK
              /\ \A a \in Accounts, c \in Choice, n \in Nonces :
                    C34_ValidReveal(games[g], a, c, n) =>
                        revealChoiceErr(a, g, c, n) = OK
        /\ Swept(games[g]) =>
              \A a \in Accounts, c \in Choice, n \in Nonces :
                  revealChoiceErr(a, g, c, n) # OK

C34_RevealOrSweep ==
    /\ []C34_Exclusive
    /\ [][\A g \in GameIds : Swept(games[g]) =>
            /\ games'[g].player1Revealed = games[g].player1Revealed
            /\ games'[g].player2Revealed = games[g].player2Revealed
            /\ games'[g].player1Choice = games[g].player1Choice
            /\ games'[g].player2Choice = games[g].player2Choice]_vars

\* the clock stands exactly at the reveal deadline, player1 has revealed and
\* player2, committed to a playable choice, can still reveal
C34_Witness ==
    \E g \in GameIds :
        /\ games[g].revealDeadline > 0
        /\ now = games[g].revealDeadline
        /\ games[g].player1Revealed
        /\ \E c \in Played, n \in Nonces :
              C34_ValidReveal(games[g], games[g].player2, c, n)

----------------------------------------------------------------------------
\* C35 (write-once commitments and reveals): a stored commitment never
\* changes; once a player has revealed, neither the stored choice nor the
\* revealed flag changes, whatever the opponent reveals afterwards; a
\* player's revealed flag is set exactly when the stored choice is not None;
\* and every stored choice is one the player's stored commitment was made
\* of (the hash of that choice, some nonce and the player's address).
C35_Matches(choice, commitHash, player) ==
    choice # ChoiceNone =>
        \E n \in Nonces : commitHash = Hash(choice, n, player)

C35_Consistent ==
    \A g \in GameIds :
        LET game == games[g] IN
        /\ game.player1Revealed <=> game.player1Choice # ChoiceNone
        /\ game.player2Revealed <=> game.player2Choice # ChoiceNone
        /\ C35_Matches(game.player1Choice, game.player1CommitHash, game.player1)
        /\ C35_Matches(game.player2Choice, game.player2CommitHash, game.player2)

C35_Kept(g) ==
    LET game == games[g]
        after == games'[g]
    IN
    /\ game.player1CommitHash # ZeroHash =>
           after.player1CommitHash = game.player1CommitHash
    /\ game.player2CommitHash # ZeroHash =>
           after.player2CommitHash = game.player2CommitHash
    /\ game.player1Revealed =>
           after.player1Revealed /\ after.player1Choice = game.player1Choice
    /\ game.player2Revealed =>
           after.player2Revealed /\ after.player2Choice = game.player2Choice

C35_WriteOnce ==
    /\ []C35_Consistent
    /\ [][\A g \in GameIds : C35_Kept(g)]_vars

\* player2 has revealed a choice that beats the one player1 is committed to;
\* the reveal phase is open and player1 has not revealed yet
C35_Witness ==
    \E g \in GameIds :
        /\ RevealOpen(games[g])
        /\ games[g].player2Revealed /\ ~games[g].player1Revealed
        /\ \E c \in Played, n \in Nonces :
              /\ games[g].player1CommitHash = Hash(c, n, games[g].player1)
              /\ determineWinner(c, games[g].player2Choice) = "Player2Wins"

----------------------------------------------------------------------------
\* C36 (result and completion): in every state a game's result differs from
\* Pending exactly when the game is completed; a result that has left
\* Pending never changes; and a result of Player1Wins, Player2Wins or Draw
\* is found only on a game with two players.
C36_ResultIffCompleted ==
    \A g \in GameIds :
        /\ games[g].result # "Pending" <=> games[g].isCompleted
        /\ games[g].result \in {"Player1Wins", "Player2Wins", "Draw"} =>
              games[g].player1 # ZeroAddr /\ games[g].player2 # ZeroAddr

C36_ResultFinal ==
    /\ []C36_ResultIffCompleted
    /\ [][\A g \in GameIds :
            games[g].result # "Pending" => games'[g].result = games[g].result]_vars

----------------------------------------------------------------------------
\* C37 (deadline ordering): commitDeadline is zero exactly while player2 is
\* absent, and once set by the join it never changes; whenever revealDeadline
\* is set, commitDeadline <= revealDeadline <= commitDeadline +
\* REVEAL_DURATION, the second commitment having been accepted at a time
\* between the join and commitDeadline.
C37_Ordered ==
    \A g \in GameIds :
        LET game == games[g] IN
        /\ game.commitDeadline = 0 <=> game.player2 = ZeroAddr
        /\ game.revealDeadline > 0 =>
              /\ game.commitDeadline <= game.revealDeadline
              /\ game.revealDeadline <= game.commitDeadline + REVEAL_DURATION

C37_SecondCommit(g) ==
    games[g].revealDeadline = 0 /\ games'[g].revealDeadline > 0 =>
        /\ games[g].commitDeadline - COMMIT_DURATION <= now
        /\ now <= games[g].commitDeadline

C37_DeadlineOrdering ==
    /\ []C37_Ordered
    /\ [][\A g \in GameIds :
            /\ games[g].player2 # ZeroAddr =>
                  games'[g].commitDeadline = games[g].commitDeadline
            /\ C37_SecondCommit(g)]_vars

\* the second commitment arrived exactly at commitDeadline, after the first
\* arrived with the join: revealDeadline is the latest one allowed
C37_Witness ==
    \E g \in GameIds :
        /\ games[g].commitDeadline > 0
        /\ games[g].revealDeadline = games[g].commitDeadline + REVEAL_DURATION

====
